---------------------------- MODULE Spec2Model ----------------------------
(***************************************************************************)
(* A model of wsbackup (src/wsbackup.py): the PID-stamped lock file, the   *)
(* stages of one backup run (Backup.__init__, process_backup, __exit__),   *)
(* the retention engine (get_backup_list, sort_by_age, prune_backup) and   *)
(* the options of rsync (merge_opts, is_dry_run).                          *)
(*                                                                         *)
(* Time is counted in whole units (the code's labels have a resolution of  *)
(* one second; spacings and bounds are day counts turned into timedeltas). *)
(* A directory name is a sequence of symbols; a snapshot label is the      *)
(* image of a time under strftime: two fields, most significant first,     *)
(* each one symbol below LabelBase.                                        *)
(***************************************************************************)
EXTENDS Integers, Sequences, FiniteSets, TLC

(***************************************************************************)
(* Bounds of the model.                                                    *)
(***************************************************************************)
LabelBase == 4      \* radix of one label field
MaxTime == 5        \* latest time of a snapshot in the engine's inputs
MaxSnaps == 5       \* most labels in one listing of the engine's inputs
MaxSpacing == 4     \* largest spacing of a tier
MaxBound == 3       \* largest finite bound of a tier
OldCount == 2       \* snapshots that earlier runs left at the destination
OrderTime == 3      \* latest time of a snapshot in the listings put in order
MaxOpts == 2        \* most options in one list given to merge_opts
MaxTicks == 1       \* ticks of the wall clock during the runs
MaxLit == 2         \* largest literal in a drawn tier of the configuration
MaxTerms == 3       \* most literals in one drawn expression

\* The bound value that marks the unbounded tier.
Unbounded == -1

(***************************************************************************)
(* Names and labels.                                                       *)
(***************************************************************************)
\* A format that writes the fields of a time in the reverse order.
strftime_reversed(t) == <<t % LabelBase, t \div LabelBase>>

\* DATE_FORMAT applied by strftime: time -> label.
strftime(t) == <<t \div LabelBase, t % LabelBase>>

\* DATE_FORMAT applied by strptime: label -> time.
strptime(date_str) == date_str[1] * LabelBase + date_str[2]

\* valid_date that accepts every name that begins with a label.
valid_date_prefix(datestring) ==
    /\ Len(datestring) >= 2
    /\ \A i \in 1..2 : datestring[i] < LabelBase

\* valid_date: does strptime accept the name?
valid_date(datestring) ==
    /\ Len(datestring) = 2
    /\ \A i \in 1..Len(datestring) : datestring[i] < LabelBase

\* The staging directory, the "latest" link and a foreign entry: names that
\* do not match the label format.
Incomplete == <<LabelBase>>
Latest == <<LabelBase + 1>>
Junk == <<0, 0, LabelBase>>

\* String order, as list.sort() applies it to names.
StrLess(a, b) ==
    \E i \in 1..(Len(a) + 1) :
        /\ \A j \in 1..(i - 1) : j <= Len(b) /\ a[j] = b[j]
        /\ \/ i = Len(a) + 1 /\ Len(b) >= i
           \/ i <= Len(a) /\ i <= Len(b) /\ a[i] < b[i]

RECURSIVE sort(_)
\* backup_list.sort(): the names of S in ascending string order.
sort(S) ==
    IF S = {} THEN <<>>
    ELSE LET m == CHOOSE x \in S : \A y \in S \ {x} : StrLess(x, y)
         IN  <<m>> \o sort(S \ {m})

\* get_backup_list: the entries of the listing that parse as labels.
get_backup_list(listing) == {item \in listing : valid_date(item)}

(***************************************************************************)
(* sort_by_age.                                                            *)
(***************************************************************************)
RECURSIVE age_index_from_bounded(_, _, _, _)
\* age_index_from without the test of the unbounded mark: a backup older
\* than every finite bound gets no index.
age_index_from_bounded(dt_obj, now, aging_params, index) ==
    IF index > Len(aging_params) THEN 0
    ELSE IF now - dt_obj < aging_params[index].bound
         THEN index
         ELSE age_index_from_bounded(dt_obj, now, aging_params, index + 1)

RECURSIVE age_index_from_le(_, _, _, _)
\* age_index_from with the bound compared by <= : a snapshot whose age is
\* exactly a bound stays in the finer tier.
age_index_from_le(dt_obj, now, aging_params, index) ==
    IF index > Len(aging_params) THEN 0
    ELSE IF \/ now - dt_obj <= aging_params[index].bound
            \/ aging_params[index].bound = Unbounded
         THEN index
         ELSE age_index_from_le(dt_obj, now, aging_params, index + 1)

RECURSIVE age_index_from(_, _, _, _)
\* The inner loop of sort_by_age: the first index from `index` on whose
\* bound exceeds the age or is the unbounded mark; 0 stands for None.
age_index_from(dt_obj, now, aging_params, index) ==
    IF index > Len(aging_params) THEN 0
    ELSE IF \/ now - dt_obj < aging_params[index].bound
            \/ aging_params[index].bound = Unbounded
         THEN index
         ELSE age_index_from(dt_obj, now, aging_params, index + 1)

age_index(date_str, now, aging_params) ==
    age_index_from(strptime(date_str), now, aging_params, 1)

\* The loop of sort_by_age over the sorted list: the labels split by age
\* index, and the labels no tier takes.
by_age(sorted, now, aging_params) ==
    [backups |->
        [i \in 1..Len(aging_params) |->
            SelectSeq(sorted, LAMBDA d : age_index(d, now, aging_params) = i)],
     deletions |->
        SelectSeq(sorted, LAMBDA d : age_index(d, now, aging_params) = 0)]

\* sort_by_age of the entries a listing holds, whatever their order.
sort_by_age(backup_list, now, aging_params) ==
    by_age(sort(backup_list), now, aging_params)

(***************************************************************************)
(* prune_backup.                                                           *)
(***************************************************************************)
RECURSIVE walk_one(_, _, _)
\* walk that stops at the first backup it deletes: one deletion for each
\* age index in one pass.
walk_one(age_subset, prev_backup, spacing) ==
    IF age_subset = <<>> THEN <<>>
    ELSE LET backup == Head(age_subset)
         IN  IF strptime(backup) - strptime(prev_backup) < spacing
             THEN <<backup>>
             ELSE walk_one(Tail(age_subset), backup, spacing)

RECURSIVE walk_le(_, _, _)
\* walk with the spacing compared by <= : a backup exactly one spacing after
\* the reference is deleted too.
walk_le(age_subset, prev_backup, spacing) ==
    IF age_subset = <<>> THEN <<>>
    ELSE LET backup == Head(age_subset)
         IN  IF strptime(backup) - strptime(prev_backup) <= spacing
             THEN <<backup>> \o walk_le(Tail(age_subset), prev_backup, spacing)
             ELSE walk_le(Tail(age_subset), backup, spacing)

RECURSIVE walk(_, _, _)
\* The loop over age_subset once its two ends are popped.
walk(age_subset, prev_backup, spacing) ==
    IF age_subset = <<>> THEN <<>>
    ELSE LET backup == Head(age_subset)
         IN  IF strptime(backup) - strptime(prev_backup) < spacing
             THEN <<backup>> \o walk(Tail(age_subset), prev_backup, spacing)
             ELSE walk(Tail(age_subset), backup, spacing)

\* thin without age_subset.pop(): the newest backup of the tier is walked
\* like the others.
thin_no_pop(age_subset, spacing) ==
    IF Len(age_subset) < 3 THEN <<>>
    ELSE walk(Tail(age_subset), age_subset[1], spacing)

\* thin as the older wsbackup_prune.py walks a list: no pop of the newest,
\* and no length test that would spare a pair.
thin_pairs(age_subset, spacing) ==
    IF Len(age_subset) < 2 THEN <<>>
    ELSE walk(Tail(age_subset), age_subset[1], spacing)

\* One pass of the loop over the age indexes: the labels of one tier to delete.
thin(age_subset, spacing) ==
    IF Len(age_subset) < 3 THEN <<>>
    ELSE walk(SubSeq(age_subset, 2, Len(age_subset) - 1), age_subset[1], spacing)

RECURSIVE thin_from(_, _, _)
thin_from(backups, aging_params, index) ==
    IF index > Len(backups) THEN <<>>
    ELSE thin(backups[index], aging_params[index].spacing)
         \o thin_from(backups, aging_params, index + 1)

\* prune_deletions with the deletions list started afresh: what sort_by_age
\* found out of range is lost.
prune_deletions_thin_only(sorted, aging_params) ==
    thin_from(sorted.backups, aging_params, 1)

\* prune_backup up to the call of remove_backups: the deletions list.
prune_deletions(sorted, aging_params) ==
    sorted.deletions \o thin_from(sorted.backups, aging_params, 1)

Range(s) == {s[i] : i \in 1..Len(s)}

(***************************************************************************)
(* The engine on a listing in the order it was listed.                     *)
(***************************************************************************)
RECURSIVE list_insert(_, _)
\* A name put at its place in a list that is in ascending string order.
list_insert(sorted, name) ==
    IF sorted = <<>> THEN <<name>>
    ELSE IF StrLess(name, Head(sorted)) THEN <<name>> \o sorted
    ELSE <<Head(sorted)>> \o list_insert(Tail(sorted), name)

\* backup_list.sort() that leaves the list in the order it was listed.
list_sort_none(backup_list) == backup_list

RECURSIVE list_sort(_)
\* backup_list.sort() on a list.
list_sort(backup_list) ==
    IF backup_list = <<>> THEN <<>>
    ELSE list_insert(list_sort(Tail(backup_list)), Head(backup_list))

\* prune_backup up to the call of remove_backups, on the listing as
\* os.listdir or ls returned it: the deletions list.
prune_listed(listed, now, aging_params) ==
    prune_deletions(
        by_age(list_sort(SelectSeq(listed, valid_date)), now, aging_params),
        aging_params)


(***************************************************************************)
(* The options of rsync.  An option is a sequence of characters.           *)
(***************************************************************************)
\* re.match(pattern, opt) for a pattern without special characters: opt
\* begins with the pattern.
match(pattern, opt) ==
    Len(opt) >= Len(pattern) /\ SubSeq(opt, 1, Len(pattern)) = pattern

\* is_dry_run: some option begins with -n or with --dry-run.
is_dry_run(opts) ==
    \E i \in 1..Len(opts) :
        \/ match(<<"-", "n">>, opts[i])
        \/ match(<<"-", "-", "d", "r", "y", "-", "r", "u", "n">>, opts[i])

\* What rsync itself makes of its options: it runs in dry-run mode when an
\* option is --dry-run or a group of one-letter options that holds n.
rsync_dry_run(opts) ==
    \E i \in 1..Len(opts) :
        \/ opts[i] = <<"-", "-", "d", "r", "y", "-", "r", "u", "n">>
        \/ /\ Len(opts[i]) >= 2 /\ opts[i][1] = "-" /\ opts[i][2] # "-"
           /\ \E j \in 2..Len(opts[i]) : opts[i][j] = "n"

RECURSIVE remove_first(_, _)
\* The loop over opts in merge_opts for one no_opt: the first option that
\* is no_opt, or begins with no_opt and a space, is removed.
remove_first(opts, no_opt) ==
    IF opts = <<>> THEN <<>>
    ELSE IF Head(opts) = no_opt \/ match(no_opt \o <<" ">>, Head(opts))
         THEN Tail(opts)
         ELSE <<Head(opts)>> \o remove_first(Tail(opts), no_opt)

RECURSIVE remove_all(_, _)
\* The loop over no_opts in merge_opts.
remove_all(opts, no_opts) ==
    IF no_opts = <<>> THEN opts
    ELSE remove_all(remove_first(opts, Head(no_opts)), Tail(no_opts))

\* merge_opts: the new options that begin with "-" are kept; of those, the
\* ones that begin with "no-" name, without their first two characters, an
\* option to remove; the kept new options follow what is left of opts.
merge_opts(opts, new_opts) ==
    LET kept == SelectSeq(new_opts, LAMBDA o : match(<<"-">>, o))
        marked == SelectSeq(kept, LAMBDA o : match(<<"n", "o", "-">>, o))
        no_opts == [i \in 1..Len(marked) |->
                        SubSeq(marked[i], 3, Len(marked[i]))]
    IN  remove_all(opts, no_opts) \o kept

\* default_rsync_opts of parse_config.
default_rsync_opts ==
    <<<<"-", "-", "a", "r", "c", "h", "i", "v", "e">>,
      <<"-", "h", "h", "h">>,
      <<"-", "-", "d", "e", "l", "e", "t", "e">>,
      <<"-", "-", "s", "t", "a", "t", "s">>,
      <<"-", "-", "c", "h", "m", "o", "d", "=", "u", "+", "r", "w">>>>

(***************************************************************************)
(* State.                                                                  *)
(***************************************************************************)
VARIABLES
    pc,             \* where each run stands
    exc,            \* the exception a run is unwinding with, or "none"
    rsync_opts,     \* config['rsync_opts'] of each run
    lockpid,        \* what check_lockfile read: <<>> or <<pid>>
    backup_time,    \* config['backup_time']: <<>> (None) or a label
    deletions,      \* the deletions list of each run's prune_backup
    lockfile,       \* the lock file: <<>> (absent) or <<pid>>
    dest,           \* the entries of the destination directory
    latest,         \* the target of the "latest" link, <<>> when absent
    clock,          \* datetime.now()
    remote,         \* config['remote'] and logfile['copy_to_dest']
    aging_params,   \* config['aging_params']
    e_pc,           \* the engine applied to drawn inputs: its stage,
    e_listing,      \*   the listing,
    e_now,          \*   the reference time,
    e_sorted,       \*   the result of sort_by_age,
    e_deletions,    \*   the deletions list,
    e_listed,       \*   the listing in the order it was listed,
    e_again,        \*   the deletions list of a second evaluation
    m_pc,           \* merge_opts applied to drawn inputs: its stage,
    m_opts,         \*   the options to start from,
    m_new_opts,     \*   the options given to merge into them,
    m_result,       \*   the merged options
    c_pc,           \* parse_config applied to drawn tiers: its stage,
    c_raw,          \*   the 'aging_params' of the configuration file,
    c_config,       \*   the outcome and config['aging_params']
    l_pc,           \* DATE_FORMAT applied to two drawn times: its stage,
    l_time,         \*   the two times,
    l_label,        \*   their labels,
    l_parsed,       \*   the times parsed back from the labels
    proc            \* the process (its PID) each run is made in

run_vars == <<pc, exc, rsync_opts, lockpid, backup_time, deletions>>
world_vars == <<lockfile, dest, latest, clock, remote>>
engine_vars ==
    <<e_pc, e_listing, e_now, e_sorted, e_deletions, e_listed, e_again>>
merge_vars == <<m_pc, m_opts, m_new_opts, m_result>>
config_vars == <<c_pc, c_raw, c_config>>
label_vars == <<l_pc, l_time, l_label, l_parsed>>
vars ==
    <<run_vars, world_vars, aging_params, engine_vars, merge_vars,
      config_vars, label_vars, proc>>

(***************************************************************************)
(* The inputs.                                                             *)
(***************************************************************************)
\* The backup runs; a run's PID is its number.
Runs == {1, 2}

\* The user of each process: process 1 is root's, the others ordinary
\* users'.
Uid(pid) == pid - 1

Tiers == [spacing : 1..MaxSpacing, bound : (1..MaxBound) \cup {Unbounded}]

\* Tier lists of one or two tiers: finite bounds strictly increasing, the
\* unbounded mark on the last tier only.
TierLists ==
    {<<t>> : t \in Tiers}
    \cup {<<t, u>> : <<t, u>> \in
            {p \in Tiers \X Tiers :
                /\ p[1].bound # Unbounded
                /\ p[2].bound = Unbounded \/ p[1].bound < p[2].bound}}

\* The tier lists the runs are configured with.
RunTierLists ==
    {<<[spacing |-> 2, bound |-> Unbounded]>>,
     <<[spacing |-> 1, bound |-> 2]>>}

\* The rsync options a run is given: none, -n, or -n in a group with -a.
UserOpts == {<<>>, <<<<"-", "n">>>>, <<<<"-", "a", "n">>>>}

NoRemote ==
    [present |-> FALSE, has_host |-> FALSE, location |-> "absent",
     copy_to_dest |-> FALSE]

\* The "remote" settings (with the log's copy_to_dest) a configuration may
\* hold.
RemoteConfigs ==
    {NoRemote}
    \cup {[present |-> TRUE, has_host |-> TRUE, location |-> l,
           copy_to_dest |-> FALSE] : l \in {"src", "other", "absent"}}
    \cup {[present |-> TRUE, has_host |-> h, location |-> "dest",
           copy_to_dest |-> TRUE] : h \in BOOLEAN}

\* The snapshots earlier runs left, the newest of them at time
\* OldCount - 1.
OldSnaps == {strftime(t) : t \in 0..(OldCount - 1)}

Labels == {strftime(t) : t \in 0..MaxTime}

Listings ==
    {L \cup X : L \in {S \in SUBSET Labels : Cardinality(S) <= MaxSnaps},
                X \in {{}, {Incomplete, Latest, Junk}}}

(***************************************************************************)
(* The retention engine on drawn inputs.                                   *)
(***************************************************************************)
\* No run has started; the destination holds what earlier runs left.
RunsIdle ==
    /\ pc = [r \in Runs |-> "Idle"]
    /\ exc = [r \in Runs |-> "none"]
    /\ rsync_opts = [r \in Runs |-> <<>>]
    /\ lockpid = [r \in Runs |-> <<>>]
    /\ backup_time = [r \in Runs |-> <<>>]
    /\ deletions = [r \in Runs |-> <<>>]
    /\ clock = OldCount - 1

EngineOff ==
    /\ e_pc = "off"
    /\ e_listing = {}
    /\ e_now = 0
    /\ e_sorted = [backups |-> <<>>, deletions |-> <<>>]
    /\ e_deletions = <<>>
    /\ e_listed = <<>>
    /\ e_again = <<>>

\* merge_opts is not applied to drawn inputs.
MergeOff ==
    /\ m_pc = "off"
    /\ m_opts = <<>>
    /\ m_new_opts = <<>>
    /\ m_result = <<>>

\* Every run is made in a process of its own.
OwnProcess == proc = [r \in Runs |-> r]

\* DATE_FORMAT is not applied to drawn times.
LabelOff ==
    /\ l_pc = "off"
    /\ l_time = <<0, 0>>
    /\ l_label = <<>>
    /\ l_parsed = <<>>

\* parse_config is not applied to drawn tiers.
ConfigOff ==
    /\ c_pc = "off"
    /\ c_raw = [given |-> FALSE, tiers |-> <<>>]
    /\ c_config = [status |-> "none", aging_params |-> <<>>]

EngineInit ==
    /\ RunsIdle
    /\ OwnProcess
    /\ LabelOff
    /\ ConfigOff
    /\ MergeOff
    /\ lockfile = <<>>
    /\ dest = {}
    /\ latest = <<>>
    /\ remote = NoRemote
    /\ aging_params \in TierLists
    /\ e_pc = "input"
    /\ e_listing \in Listings
    /\ e_now \in {MaxTime - 1, MaxTime}
    /\ e_sorted = [backups |-> <<>>, deletions |-> <<>>]
    /\ e_deletions = <<>>
    /\ e_listed = <<>>
    /\ e_again = <<>>

\* prune_backup, first half: get_backup_list and sort_by_age.
EngineSort ==
    /\ e_pc = "input"
    /\ e_sorted' = sort_by_age(get_backup_list(e_listing), e_now, aging_params)
    /\ e_pc' = "sorted"
    /\ UNCHANGED <<e_listing, e_now, e_deletions, e_listed, e_again>>
    /\ UNCHANGED <<run_vars, world_vars, aging_params, merge_vars>>
    /\ UNCHANGED <<config_vars, label_vars, proc>>

\* prune_backup, second half: the loop over the age indexes.
EnginePrune ==
    /\ e_pc = "sorted"
    /\ e_deletions' = prune_deletions(e_sorted, aging_params)
    /\ e_pc' = "pruned"
    /\ UNCHANGED <<e_listing, e_now, e_sorted, e_listed, e_again>>
    /\ UNCHANGED <<run_vars, world_vars, aging_params, merge_vars>>
    /\ UNCHANGED <<config_vars, label_vars, proc>>

\* prune_backup once more, with the same reference time and tiers, on the
\* listing without the deletions of the first pass.
EngineRerun ==
    /\ e_pc = "pruned"
    /\ e_again' =
            prune_deletions(
                sort_by_age(get_backup_list(e_listing) \ Range(e_deletions),
                            e_now, aging_params),
                aging_params)
    /\ e_pc' = "rerun"
    /\ UNCHANGED <<e_listing, e_now, e_sorted, e_deletions, e_listed>>
    /\ UNCHANGED <<run_vars, world_vars, aging_params, merge_vars>>
    /\ UNCHANGED <<config_vars, label_vars, proc>>

EngineNext == EngineSort \/ EnginePrune \/ EngineRerun

SpecEngine == EngineInit /\ [][EngineNext]_vars

(***************************************************************************)
(* The retention engine evaluated twice on one listing: on the entries in  *)
(* the order os.listdir returned them (any order), and on the same entries *)
(* in the order ls prints them (ascending).                                *)
(***************************************************************************)
RECURSIVE Orders(_)
\* The orders in which os.listdir may return the entries S.
Orders(S) ==
    IF S = {} THEN {<<>>}
    ELSE UNION {{<<x>> \o o : o \in Orders(S \ {x})} : x \in S}

\* The listings put in order: snapshots in any order, with or without the
\* staging directory before them.
OrderListings ==
    UNION {{o, <<Incomplete>> \o o} : o \in
            UNION {Orders(S) :
                    S \in SUBSET {strftime(t) : t \in 0..OrderTime}}}

OrderInit ==
    /\ RunsIdle
    /\ OwnProcess
    /\ LabelOff
    /\ ConfigOff
    /\ MergeOff
    /\ lockfile = <<>>
    /\ dest = {}
    /\ latest = <<>>
    /\ remote = NoRemote
    /\ aging_params \in TierLists
    /\ e_pc = "listed"
    /\ e_listed \in OrderListings
    /\ e_listing = Range(e_listed)
    /\ e_now \in {OrderTime, OrderTime + 1}
    /\ e_sorted = [backups |-> <<>>, deletions |-> <<>>]
    /\ e_deletions = <<>>
    /\ e_again = <<>>

\* prune_backup on the listing in the order os.listdir returned it.
OrderFirst ==
    /\ e_pc = "listed"
    /\ e_deletions' = prune_listed(e_listed, e_now, aging_params)
    /\ e_pc' = "first"
    /\ UNCHANGED <<e_listing, e_now, e_sorted, e_listed, e_again>>
    /\ UNCHANGED <<run_vars, world_vars, aging_params, merge_vars>>
    /\ UNCHANGED <<config_vars, label_vars, proc>>

\* prune_backup once more, on the same entries in the order ls prints them.
OrderSecond ==
    /\ e_pc = "first"
    /\ e_again' = prune_listed(sort(e_listing), e_now, aging_params)
    /\ e_pc' = "second"
    /\ UNCHANGED <<e_listing, e_now, e_sorted, e_listed, e_deletions>>
    /\ UNCHANGED <<run_vars, world_vars, aging_params, merge_vars>>
    /\ UNCHANGED <<config_vars, label_vars, proc>>

OrderNext == OrderFirst \/ OrderSecond

SpecOrder == OrderInit /\ [][OrderNext]_vars

(***************************************************************************)
(* merge_opts on drawn inputs.                                             *)
(***************************************************************************)
\* The options merge_opts starts from: -v, -v with an argument, -a.
StartFlags ==
    {<<"-", "v">>, <<"-", "v", " ", "x">>, <<"-", "a">>}

\* The options given to merge in: -a, and no- before -v and before -a.
NewFlags ==
    {<<"-", "a">>, <<"n", "o", "-", "-", "v">>, <<"n", "o", "-", "-", "a">>}

\* The lists of at most MaxOpts options over a set of options.
OptLists(F) == UNION {[1..n -> F] : n \in 0..MaxOpts}

MergeInit ==
    /\ RunsIdle
    /\ OwnProcess
    /\ LabelOff
    /\ ConfigOff
    /\ EngineOff
    /\ lockfile = <<>>
    /\ dest = {}
    /\ latest = <<>>
    /\ remote = NoRemote
    /\ aging_params \in RunTierLists
    /\ m_pc = "input"
    /\ m_opts \in OptLists(StartFlags)
    /\ m_new_opts \in OptLists(NewFlags)
    /\ m_result = <<>>

\* The call of merge_opts.
Merge ==
    /\ m_pc = "input"
    /\ m_result' = merge_opts(m_opts, m_new_opts)
    /\ m_pc' = "merged"
    /\ UNCHANGED <<m_opts, m_new_opts>>
    /\ UNCHANGED <<run_vars, world_vars, aging_params, engine_vars>>
    /\ UNCHANGED <<config_vars, label_vars, proc>>

MergeNext == Merge

SpecMerge == MergeInit /\ [][MergeNext]_vars

(***************************************************************************)
(* The retention tiers of the configuration.  A number is a fraction n/d   *)
(* in lowest terms; a field of a tier is a number or a string holding an   *)
(* expression, which is a first literal followed by (operator, literal)    *)
(* pairs.                                                                  *)
(***************************************************************************)
RECURSIVE GCD(_, _)
GCD(a, b) == IF b = 0 THEN a ELSE GCD(b, a % b)

Frac(n, d) ==
    LET g == GCD(IF n < 0 THEN -n ELSE n, d)
    IN  [n |-> n \div g, d |-> d \div g]

\* val * float(part) and val / float(part)
times(val, k) == Frac(val.n * k, val.d)
over(val, k) == Frac(val.n, val.d * k)

ValueError == [err |-> TRUE, n |-> 0, d |-> 1]
Value(val) == [err |-> FALSE, n |-> val.n, d |-> val.d]

\* expr.split('/'): the literals between two '/' form one part, themselves
\* separated by '*'.
RECURSIVE split_from(_, _)
split_from(toks, parts) ==
    IF toks = <<>> THEN parts
    ELSE IF Head(toks).op = "/"
         THEN split_from(Tail(toks), Append(parts, <<Head(toks).num>>))
         ELSE split_from(Tail(toks),
                         [parts EXCEPT ![Len(parts)] =
                             Append(@, Head(toks).num)])

split(expr) == split_from(Tail(expr), <<<<Head(expr).num>>>>)

\* for m_part in mult_parts: val = val * float(m_part)
RECURSIVE mult_loop(_, _)
mult_loop(val, mult_parts) ==
    IF mult_parts = <<>> THEN val
    ELSE mult_loop(times(val, Head(mult_parts)), Tail(mult_parts))

\* for d_part in div_parts: divide by its first literal, multiply by the
\* others.
RECURSIVE div_loop(_, _)
div_loop(val, div_parts) ==
    IF div_parts = <<>> THEN val
    ELSE div_loop(mult_loop(over(val, Head(div_parts)[1]),
                            Tail(Head(div_parts))),
                  Tail(div_parts))

\* float() of the first part takes one literal only.
num_eval(expr) ==
    LET div_parts == split(expr)
    IN  IF Len(div_parts[1]) # 1 THEN ValueError
        ELSE Value(div_loop(Frac(div_parts[1][1], 1), Tail(div_parts)))

Num(n, d) == [is_str |-> FALSE, num |-> [n |-> n, d |-> d], expr |-> <<>>]
Str(expr) == [is_str |-> TRUE, num |-> [n |-> 0, d |-> 1], expr |-> expr]

default_aging_params_hourly ==
    <<[spacing |-> Num(1, 24), bound |-> Num(2, 1)],
      [spacing |-> Num(1, 1), bound |-> Num(14, 1)],
      [spacing |-> Num(7, 1), bound |-> Num(60, 1)],
      [spacing |-> Num(30, 1), bound |-> Num(730, 1)],
      [spacing |-> Num(365, 1), bound |-> Num(Unbounded, 1)]>>

default_aging_params ==
    <<[spacing |-> Num(1, 48), bound |-> Num(2, 1)],
      [spacing |-> Num(1, 1), bound |-> Num(14, 1)],
      [spacing |-> Num(7, 1), bound |-> Num(60, 1)],
      [spacing |-> Num(30, 1), bound |-> Num(730, 1)],
      [spacing |-> Num(365, 1), bound |-> Num(Unbounded, 1)]>>

\* if isinstance(val, str): num_eval(val)
eval_field(v) == IF v.is_str THEN num_eval(v.expr) ELSE Value(v.num)

\* The 'aging_params' part of parse_config: the default table when none
\* (or an empty one) is given, the string fields evaluated, every pair
\* made a tier.
parse_config_aging(raw) ==
    LET given == IF ~raw.given \/ raw.tiers = <<>>
                 THEN default_aging_params
                 ELSE raw.tiers
        vals == [i \in 1..Len(given) |->
                    [spacing |-> eval_field(given[i].spacing),
                     bound |-> eval_field(given[i].bound)]]
        number(v) == [n |-> v.n, d |-> v.d]
    IN  IF \E i \in 1..Len(given) : vals[i].spacing.err \/ vals[i].bound.err
        THEN [status |-> "ValueError", aging_params |-> <<>>]
        ELSE [status |-> "ok",
              aging_params |->
                  [i \in 1..Len(given) |->
                      [spacing |-> number(vals[i].spacing),
                       bound |-> number(vals[i].bound)]]]

\* The expressions of up to MaxTerms literals.
Exprs ==
    UNION {{e \in [1..k -> [op : {"", "*", "/"}, num : 1..MaxLit]] :
                /\ e[1].op = ""
                /\ \A i \in 2..k : e[i].op # ""} : k \in 1..MaxTerms}

Literals == {Num(k, 1) : k \in 1..MaxLit}
BoundLiterals == Literals \cup {Num(Unbounded, 1)}

\* The 'aging_params' a configuration file may hold: none, an empty list,
\* or one or two tiers, well-formed or not, the first spacing a number or
\* a string.
RawAgingParams ==
    LET first == [spacing : Literals \cup {Str(e) : e \in Exprs},
                  bound : BoundLiterals]
        second == [spacing : Literals, bound : BoundLiterals]
    IN  {[given |-> g, tiers |-> <<>>] : g \in BOOLEAN}
        \cup {[given |-> TRUE, tiers |-> <<t>>] : t \in first}
        \cup {[given |-> TRUE, tiers |-> <<t, u>>] :
                <<t, u>> \in first \X second}

ConfigInit ==
    /\ RunsIdle
    /\ OwnProcess
    /\ LabelOff
    /\ EngineOff
    /\ MergeOff
    /\ lockfile = <<>>
    /\ dest = {}
    /\ latest = <<>>
    /\ remote = NoRemote
    /\ aging_params = <<>>
    /\ c_pc = "file"
    /\ c_raw \in RawAgingParams
    /\ c_config = [status |-> "none", aging_params |-> <<>>]

\* parse_config reads the tiers of the configuration file.
ParseConfig ==
    /\ c_pc = "file"
    /\ c_config' = parse_config_aging(c_raw)
    /\ c_pc' = "resolved"
    /\ UNCHANGED c_raw
    /\ UNCHANGED <<run_vars, world_vars, aging_params, engine_vars>>
    /\ UNCHANGED <<merge_vars, label_vars, proc>>

ConfigNext == ParseConfig

SpecConfig == ConfigInit /\ [][ConfigNext]_vars

(***************************************************************************)
(* DATE_FORMAT on drawn times: two times are formatted as update_latest    *)
(* formats the time of a snapshot, and the labels parsed back as           *)
(* sort_by_age parses them.                                                *)
(***************************************************************************)
\* The times a label can hold.
LabelTimes == 0..(LabelBase * LabelBase - 1)

LabelInit ==
    /\ RunsIdle
    /\ OwnProcess
    /\ EngineOff
    /\ MergeOff
    /\ ConfigOff
    /\ lockfile = <<>>
    /\ dest = {}
    /\ latest = <<>>
    /\ remote = NoRemote
    /\ aging_params = <<>>
    /\ l_pc = "times"
    /\ l_time \in LabelTimes \X LabelTimes
    /\ l_label = <<>>
    /\ l_parsed = <<>>

\* dtime.datetime.now().strftime(DATE_FORMAT)
Format ==
    /\ l_pc = "times"
    /\ l_label' = <<strftime(l_time[1]), strftime(l_time[2])>>
    /\ l_pc' = "formatted"
    /\ UNCHANGED <<l_time, l_parsed>>
    /\ UNCHANGED <<run_vars, world_vars, aging_params, engine_vars>>
    /\ UNCHANGED <<merge_vars, config_vars, proc>>

\* dtime.datetime.strptime(date_str, DATE_FORMAT)
Parse ==
    /\ l_pc = "formatted"
    /\ \A i \in 1..2 : valid_date(l_label[i])
    /\ l_parsed' = <<strptime(l_label[1]), strptime(l_label[2])>>
    /\ l_pc' = "parsed"
    /\ UNCHANGED <<l_time, l_label>>
    /\ UNCHANGED <<run_vars, world_vars, aging_params, engine_vars>>
    /\ UNCHANGED <<merge_vars, config_vars, proc>>

LabelNext == Format \/ Parse

SpecLabel == LabelInit /\ [][LabelNext]_vars

(***************************************************************************)
(* The backup runs.  Every step is one statement that touches the file     *)
(* system or calls an external command; the steps of the runs interleave.  *)
(***************************************************************************)
Init ==
    /\ RunsIdle
    /\ OwnProcess
    /\ LabelOff
    /\ ConfigOff
    /\ EngineOff
    /\ MergeOff
    /\ lockfile = <<>>
    /\ remote \in RemoteConfigs
    /\ aging_params \in RunTierLists
    /\ \/ dest = {} /\ latest = <<>>
       \/ dest = OldSnaps \cup {Junk} /\ latest = strftime(OldCount - 1)

\* The entries a listing of the destination shows.
Listing == dest \cup (IF latest = <<>> THEN {} ELSE {Latest})

\* Is a process with this PID alive?
\* A process lives from the start of its first run to the end of its last.
Running(pid) ==
    /\ \E r \in Runs : proc[r] = pid /\ pc[r] # "Idle"
    /\ \E r \in Runs :
        proc[r] = pid /\ pc[r] \notin {"Done", "Aborted", "Killed"}

\* os.kill(pid, 0) called by run r.
kill(r, pid) ==
    IF ~Running(pid) THEN "ESRCH"
    ELSE IF Uid(proc[r]) = 0 \/ Uid(proc[r]) = Uid(pid) THEN "ok"
    ELSE "EPERM"

\* pid_running with every PID taken for a running one.
pid_running_always(r, pid) == TRUE

\* pid_running: any OSError of os.kill means "not running".
pid_running(r, pid) == kill(r, pid) \notin {"ESRCH", "EPERM"}

\* The test of the "remote" setting without the test of "location" against
\* src and dest.
parse_config_any_location(rem) ==
    ~rem.present \/ (rem.location # "absent" /\ rem.has_host)

\* The test of the "remote" setting at the end of parse_config.
parse_config_ok(rem) ==
    ~rem.present
    \/ (/\ rem.location # "absent" /\ rem.has_host
        /\ rem.location \in {"src", "dest"})

\* The pc values of a run whose process is gone.
Ended == {"Done", "Aborted", "Killed"}

\* One step of run r: it moves to pc value `to`, raising `e` unless e is
\* "none", with its lockpid, backup_time, deletions and options as given.
\* What a process held is gone with the process.
StepOpts(r, to, e, lp, bt, dl, ro) ==
    /\ pc' = [pc EXCEPT ![r] = to]
    /\ exc' = IF e = "none" THEN exc ELSE [exc EXCEPT ![r] = e]
    /\ lockpid' = [lockpid EXCEPT ![r] = IF to \in Ended THEN <<>> ELSE lp]
    /\ backup_time' =
            [backup_time EXCEPT ![r] = IF to \in Ended THEN <<>> ELSE bt]
    /\ deletions' = [deletions EXCEPT ![r] = IF to \in Ended THEN <<>> ELSE dl]
    /\ rsync_opts' =
            [rsync_opts EXCEPT ![r] = IF to \in Ended THEN <<>> ELSE ro]

\* A step that leaves the options of the run as they are.
Step(r, to, e, lp, bt, dl) == StepOpts(r, to, e, lp, bt, dl, rsync_opts[r])

\* A step that leaves lockpid, backup_time and deletions as they are too.
Goto(r, to, e) == Step(r, to, e, lockpid[r], backup_time[r], deletions[r])

\* Backup.__init__ up to check_lockfile: parse_config.
Start(r) ==
    /\ pc[r] = "Idle"
    /\ \E new_opts \in UserOpts :
        StepOpts(r, IF parse_config_ok(remote) THEN "CheckLock" ELSE "Aborted",
                 IF parse_config_ok(remote) THEN "none" ELSE "ConfigError",
                 <<>>, <<>>, <<>>, merge_opts(default_rsync_opts, new_opts))
    /\ UNCHANGED <<world_vars, aging_params, engine_vars, merge_vars>>
    /\ UNCHANGED <<config_vars, label_vars, proc>>

\* check_lockfile: os.path.exists(lockfile).
CheckLock(r) ==
    /\ pc[r] = "CheckLock"
    /\ Goto(r, IF lockfile = <<>> THEN "WriteLock" ELSE "ReadLock", "none")
    /\ UNCHANGED <<world_vars, aging_params, engine_vars, merge_vars>>
    /\ UNCHANGED <<config_vars, label_vars, proc>>

\* check_lockfile: open the lock file and read the PID; the open fails when
\* the file went away since the test.
ReadLock(r) ==
    /\ pc[r] = "ReadLock"
    /\ IF lockfile = <<>>
       THEN Goto(r, "Aborted", "IOError")
       ELSE Step(r, "PidRunning", "none",
                 lockfile, backup_time[r], deletions[r])
    /\ UNCHANGED <<world_vars, aging_params, engine_vars, merge_vars>>
    /\ UNCHANGED <<config_vars, label_vars, proc>>

\* check_lockfile that looks at the lock file again while its owner runs.
PidRunning_retry(r) ==
    /\ pc[r] = "PidRunning"
    /\ IF pid_running(r, lockpid[r][1])
       THEN Goto(r, "CheckLock", "none")
       ELSE Goto(r, "WriteLock", "none")
    /\ UNCHANGED <<world_vars, aging_params, engine_vars, merge_vars>>
    /\ UNCHANGED <<config_vars, label_vars, proc>>

\* check_lockfile: pid_running(lockpid), backup_error when it is.
PidRunning(r) ==
    /\ pc[r] = "PidRunning"
    /\ IF pid_running(r, lockpid[r][1])
       THEN Goto(r, "Aborted", "LockHeld")
       ELSE Goto(r, "WriteLock", "none")
    /\ UNCHANGED <<world_vars, aging_params, engine_vars, merge_vars>>
    /\ UNCHANGED <<config_vars, label_vars, proc>>

\* Backup.__init__: write the PID to the lock file.
WriteLock(r) ==
    /\ pc[r] = "WriteLock"
    /\ lockfile' = <<proc[r]>>
    /\ Goto(r, "Validating", "none")
    /\ UNCHANGED <<dest, latest, clock, remote>>
    /\ UNCHANGED <<aging_params, engine_vars, merge_vars>>
    /\ UNCHANGED <<config_vars, label_vars, proc>>

\* validate_host whose failed check is logged without stopping the run.
Validate_goes_on(r) ==
    /\ pc[r] = "Validating"
    /\ \E ok \in BOOLEAN :
        IF ok \/ ~remote.present
        THEN Step(r, "Transferring", "none",
                  <<>>, backup_time[r], deletions[r])
        ELSE Step(r, "Transferring", "ValidationError",
                  <<>>, backup_time[r], deletions[r])
    /\ UNCHANGED <<world_vars, aging_params, engine_vars, merge_vars>>
    /\ UNCHANGED <<config_vars, label_vars, proc>>

\* validate_host: nothing without a remote; else the ssh checks.  (The PID
\* check_lockfile read is forgotten here.)
Validate(r) ==
    /\ pc[r] = "Validating"
    /\ \E ok \in BOOLEAN :
        IF ok \/ ~remote.present
        THEN Step(r, "Transferring", "none",
                  <<>>, backup_time[r], deletions[r])
        ELSE Step(r, "Exit", "ValidationError",
                  <<>>, backup_time[r], deletions[r])
    /\ UNCHANGED <<world_vars, aging_params, engine_vars, merge_vars>>
    /\ UNCHANGED <<config_vars, label_vars, proc>>

\* transfer_files whose failed rsync is logged without stopping the run.
Transfer_goes_on(r) ==
    /\ pc[r] = "Transferring"
    /\ \E ok \in BOOLEAN, wrote \in BOOLEAN :
        /\ rsync_dry_run(rsync_opts[r]) => ~wrote
        /\ (ok /\ ~rsync_dry_run(rsync_opts[r])) => wrote
        /\ dest' = IF wrote THEN dest \cup {Incomplete} ELSE dest
        /\ IF ~ok THEN Goto(r, "Rename", "TransferError")
           ELSE IF is_dry_run(rsync_opts[r]) THEN Goto(r, "Cleanup", "none")
           ELSE Goto(r, "Rename", "none")
    /\ UNCHANGED <<lockfile, latest, clock, remote>>
    /\ UNCHANGED <<aging_params, engine_vars, merge_vars>>
    /\ UNCHANGED <<config_vars, label_vars, proc>>

\* transfer_files: rsync into "incomplete", then return not is_dry_run.
\* rsync in its dry-run mode writes nothing; a failed rsync may have written
\* part of the staging area.
Transfer(r) ==
    /\ pc[r] = "Transferring"
    /\ \E ok \in BOOLEAN, wrote \in BOOLEAN :
        /\ rsync_dry_run(rsync_opts[r]) => ~wrote
        /\ (ok /\ ~rsync_dry_run(rsync_opts[r])) => wrote
        /\ dest' = IF wrote THEN dest \cup {Incomplete} ELSE dest
        /\ IF ~ok THEN Goto(r, "Exit", "TransferError")
           ELSE IF is_dry_run(rsync_opts[r]) THEN Goto(r, "Cleanup", "none")
           ELSE Goto(r, "Rename", "none")
    /\ UNCHANGED <<lockfile, latest, clock, remote>>
    /\ UNCHANGED <<aging_params, engine_vars, merge_vars>>
    /\ UNCHANGED <<config_vars, label_vars, proc>>

\* update_latest whose mv fails without stopping the run.
Rename_goes_on(r) ==
    /\ pc[r] = "Rename"
    /\ \E ok \in BOOLEAN :
        IF ok /\ Incomplete \in dest
        THEN /\ dest' = (dest \ {Incomplete}) \cup {strftime(clock)}
             /\ Step(r, "RmLatest", "none",
                     lockpid[r], strftime(clock), deletions[r])
        ELSE /\ dest' = dest
             /\ Step(r, "RmLatest", "FinalizeError",
                     lockpid[r], strftime(clock), deletions[r])
    /\ UNCHANGED <<lockfile, latest, clock, remote>>
    /\ UNCHANGED <<aging_params, engine_vars, merge_vars>>
    /\ UNCHANGED <<config_vars, label_vars, proc>>

\* update_latest: mint the label, mv incomplete to it.  mv fails without
\* the staging directory, and moves it into a directory of that name that
\* is already there.
Rename(r) ==
    /\ pc[r] = "Rename"
    /\ \E ok \in BOOLEAN :
        IF ok /\ Incomplete \in dest
        THEN /\ dest' = (dest \ {Incomplete}) \cup {strftime(clock)}
             /\ Step(r, "RmLatest", "none",
                     lockpid[r], strftime(clock), deletions[r])
        ELSE /\ dest' = dest
             /\ Step(r, "Exit", "FinalizeError",
                     lockpid[r], strftime(clock), deletions[r])
    /\ UNCHANGED <<lockfile, latest, clock, remote>>
    /\ UNCHANGED <<aging_params, engine_vars, merge_vars>>
    /\ UNCHANGED <<config_vars, label_vars, proc>>

\* update_latest: rm -f latest.
RmLatest(r) ==
    /\ pc[r] = "RmLatest"
    /\ \E ok \in BOOLEAN :
        IF ok
        THEN latest' = <<>> /\ Goto(r, "LnLatest", "none")
        ELSE latest' = latest /\ Goto(r, "Exit", "FinalizeError")
    /\ UNCHANGED <<lockfile, dest, clock, remote>>
    /\ UNCHANGED <<aging_params, engine_vars, merge_vars>>
    /\ UNCHANGED <<config_vars, label_vars, proc>>

\* update_latest: ln -s label latest.  Over a link to a directory ln puts
\* the new link inside that directory; over a dangling link it fails.
LnLatest(r) ==
    /\ pc[r] = "LnLatest"
    /\ \E ok \in BOOLEAN :
        IF ok /\ latest = <<>>
        THEN latest' = backup_time[r] /\ Goto(r, "Pruning", "none")
        ELSE IF ok /\ latest \in dest
        THEN latest' = latest /\ Goto(r, "Pruning", "none")
        ELSE latest' = latest /\ Goto(r, "Exit", "FinalizeError")
    /\ UNCHANGED <<lockfile, dest, clock, remote>>
    /\ UNCHANGED <<aging_params, engine_vars, merge_vars>>
    /\ UNCHANGED <<config_vars, label_vars, proc>>

\* prune_backup that takes datetime.now() for the reference time instead of
\* config['backup_time'].
Prune_now_clock(r) ==
    /\ pc[r] = "Pruning"
    /\ \E ok \in BOOLEAN :
        IF ok
        THEN Step(r, IF is_dry_run(rsync_opts[r]) THEN "TransferLog"
                     ELSE "Removing", "none",
                  lockpid[r], backup_time[r],
                  prune_deletions(
                      sort_by_age(get_backup_list(Listing),
                                  clock, aging_params),
                      aging_params))
        ELSE Goto(r, "Exit", "PruneError")
    /\ UNCHANGED <<world_vars, aging_params, engine_vars, merge_vars>>
    /\ UNCHANGED <<config_vars, label_vars, proc>>

\* prune_backup up to remove_backups: list, sort by age, thin.
Prune(r) ==
    /\ pc[r] = "Pruning"
    /\ \E ok \in BOOLEAN :
        IF ok
        THEN Step(r, IF is_dry_run(rsync_opts[r]) THEN "TransferLog"
                     ELSE "Removing", "none",
                  lockpid[r], backup_time[r],
                  prune_deletions(
                      sort_by_age(get_backup_list(Listing),
                                  strptime(backup_time[r]), aging_params),
                      aging_params))
        ELSE Goto(r, "Exit", "PruneError")
    /\ UNCHANGED <<world_vars, aging_params, engine_vars, merge_vars>>
    /\ UNCHANGED <<config_vars, label_vars, proc>>

\* The first k entries of a deletions list.
Prefix(dels, k) == {dels[i] : i \in 1..k}

\* remove_backups: one rm -rf over ssh, or shutil.rmtree entry by entry; it
\* removes the first k deletions and fails unless k is all of them.  rmtree
\* raises on an entry that is gone.
Remove(r) ==
    /\ pc[r] = "Removing"
    /\ \E k \in 0..Len(deletions[r]) :
        /\ remote.location # "dest" => Prefix(deletions[r], k) \subseteq dest
        /\ dest' = dest \ Prefix(deletions[r], k)
        /\ IF k = Len(deletions[r])
           THEN Step(r, "TransferLog", "none", lockpid[r], backup_time[r], <<>>)
           ELSE Step(r, "Exit", "PruneError", lockpid[r], backup_time[r], <<>>)
    /\ UNCHANGED <<lockfile, latest, clock, remote>>
    /\ UNCHANGED <<aging_params, engine_vars, merge_vars>>
    /\ UNCHANGED <<config_vars, label_vars, proc>>

\* transfer_log: rsync the log files to a remote destination if asked to.
TransferLog(r) ==
    /\ pc[r] = "TransferLog"
    /\ \E ok \in BOOLEAN :
        IF ok \/ ~(remote.location = "dest" /\ remote.copy_to_dest)
        THEN Goto(r, "Cleanup", "none")
        ELSE Goto(r, "Exit", "LogError")
    /\ UNCHANGED <<world_vars, aging_params, engine_vars, merge_vars>>
    /\ UNCHANGED <<config_vars, label_vars, proc>>

\* cleanup at the end of process_backup: os.path.exists(lockfile).
Cleanup(r) ==
    /\ pc[r] = "Cleanup"
    /\ Goto(r, IF lockfile = <<>> THEN "Exit" ELSE "CleanupRm", "none")
    /\ UNCHANGED <<world_vars, aging_params, engine_vars, merge_vars>>
    /\ UNCHANGED <<config_vars, label_vars, proc>>

\* cleanup at the end of process_backup: os.remove(lockfile), which raises
\* when the file went away since the test.
CleanupRm(r) ==
    /\ pc[r] = "CleanupRm"
    /\ Goto(r, "Exit", IF lockfile = <<>> THEN "OSError" ELSE "none")
    /\ lockfile' = <<>>
    /\ UNCHANGED <<dest, latest, clock, remote>>
    /\ UNCHANGED <<aging_params, engine_vars, merge_vars>>
    /\ UNCHANGED <<config_vars, label_vars, proc>>

\* How a run ends: Done, or Aborted when an exception leaves main.
Outcome(r, e) == IF exc[r] = "none" /\ e = "none" THEN "Done" ELSE "Aborted"

\* __exit__: cleanup, os.path.exists(lockfile).
Exit(r) ==
    /\ pc[r] = "Exit"
    /\ Goto(r, IF lockfile = <<>> THEN Outcome(r, "none") ELSE "ExitRm", "none")
    /\ UNCHANGED <<world_vars, aging_params, engine_vars, merge_vars>>
    /\ UNCHANGED <<config_vars, label_vars, proc>>

\* __exit__ whose cleanup does not remove the file.
ExitRm_skip(r) ==
    /\ pc[r] = "ExitRm"
    /\ Goto(r, Outcome(r, "none"), "none")
    /\ UNCHANGED <<world_vars, aging_params, engine_vars, merge_vars>>
    /\ UNCHANGED <<config_vars, label_vars, proc>>

\* __exit__: cleanup, os.remove(lockfile).
ExitRm(r) ==
    /\ pc[r] = "ExitRm"
    /\ LET e == IF lockfile = <<>> THEN "OSError" ELSE "none"
       IN  Goto(r, Outcome(r, e), e)
    /\ lockfile' = <<>>
    /\ UNCHANGED <<dest, latest, clock, remote>>
    /\ UNCHANGED <<aging_params, engine_vars, merge_vars>>
    /\ UNCHANGED <<config_vars, label_vars, proc>>

\* The process of a run is killed: nothing is cleaned up.
Kill(r) ==
    /\ pc[r] \notin {"Idle"} \cup Ended
    /\ Goto(r, "Killed", "none")
    /\ UNCHANGED <<world_vars, aging_params, engine_vars, merge_vars>>
    /\ UNCHANGED <<config_vars, label_vars, proc>>

\* Time passes.
Tick ==
    /\ clock < OldCount - 1 + MaxTicks
    /\ clock' = clock + 1
    /\ UNCHANGED <<run_vars, lockfile, dest, latest, remote>>
    /\ UNCHANGED <<aging_params, engine_vars, merge_vars>>
    /\ UNCHANGED <<config_vars, label_vars, proc>>

Next ==
    \/ \E r \in Runs :
        \/ Start(r) \/ CheckLock(r) \/ ReadLock(r) \/ PidRunning(r)
        \/ WriteLock(r) \/ Validate(r) \/ Transfer(r)
        \/ Rename(r) \/ RmLatest(r) \/ LnLatest(r)
        \/ Prune(r) \/ Remove(r) \/ TransferLog(r)
        \/ Cleanup(r) \/ CleanupRm(r) \/ Exit(r) \/ ExitRm(r)
        \/ Kill(r)
    \/ Tick

Spec == Init /\ [][Next]_vars

(***************************************************************************)
(* Runs whose external calls all return and whose processes are not        *)
(* killed: a run that has started goes on taking its steps.                *)
(***************************************************************************)
\* The steps of run r after its start.
RunStep(r) ==
    \/ CheckLock(r) \/ ReadLock(r) \/ PidRunning(r)
    \/ WriteLock(r) \/ Validate(r) \/ Transfer(r)
    \/ Rename(r) \/ RmLatest(r) \/ LnLatest(r)
    \/ Prune(r) \/ Remove(r) \/ TransferLog(r)
    \/ Cleanup(r) \/ CleanupRm(r) \/ Exit(r) \/ ExitRm(r)

LiveNext ==
    \/ \E r \in Runs : Start(r) \/ RunStep(r)
    \/ Tick

\* The destination holds the snapshots of earlier runs; it is local, or
\* remote with the log copied to it.  There is one tier, unbounded.
LiveInit ==
    /\ RunsIdle
    /\ OwnProcess
    /\ LabelOff
    /\ ConfigOff
    /\ EngineOff
    /\ MergeOff
    /\ lockfile = <<>>
    /\ remote \in
        {NoRemote,
         [present |-> TRUE, has_host |-> TRUE, location |-> "dest",
          copy_to_dest |-> TRUE]}
    /\ aging_params = <<[spacing |-> 2, bound |-> Unbounded]>>
    /\ dest = OldSnaps \cup {Junk}
    /\ latest = strftime(OldCount - 1)
    /\ clock = OldCount - 1

SpecLive ==
    /\ LiveInit
    /\ [][LiveNext]_vars
    /\ \A r \in Runs : WF_vars(RunStep(r))

(***************************************************************************)
(* Runs one after another: a run starts when every other run has not       *)
(* started or has terminated, in a process of its own or in the process of *)
(* the run before it.  No process is killed once its run has started; a    *)
(* lock file a crashed run left long ago may be there at the start.        *)
(***************************************************************************)
\* The PID of a process that is gone.
GhostPid == Cardinality(Runs) + 1

\* The tier lists of the runs made one after another: those of the
\* interleaved runs, and two tiers of which the second is unbounded.
SeqTierLists ==
    RunTierLists
    \cup {<<[spacing |-> 1, bound |-> 2],
             [spacing |-> 2, bound |-> Unbounded]>>}

SeqInit ==
    /\ RunsIdle
    /\ LabelOff
    /\ ConfigOff
    /\ EngineOff
    /\ MergeOff
    /\ proc \in {[r \in Runs |-> r], [r \in Runs |-> 1]}
    /\ lockfile \in {<<>>, <<GhostPid>>}
    /\ remote \in RemoteConfigs
    /\ aging_params \in SeqTierLists
    /\ \/ dest = {} /\ latest = <<>>
       \/ dest = OldSnaps \cup {Junk} /\ latest = strftime(OldCount - 1)
    /\ clock = OldCount - 1

\* The runs that are neither waiting to start nor terminated.
InProgress == {r \in Runs : pc[r] \notin {"Idle", "Done", "Aborted"}}

SeqNext ==
    \/ \E r \in Runs :
        \/ InProgress = {} /\ Start(r)
        \/ CheckLock(r) \/ ReadLock(r) \/ PidRunning(r)
        \/ WriteLock(r) \/ Validate(r) \/ Transfer(r)
        \/ Rename(r) \/ RmLatest(r) \/ LnLatest(r)
        \/ Prune(r) \/ Remove(r) \/ TransferLog(r)
        \/ Cleanup(r) \/ CleanupRm(r) \/ Exit(r) \/ ExitRm(r)
    \/ Tick

SpecSeq == SeqInit /\ [][SeqNext]_vars

(***************************************************************************)
(* Properties of the runs (checked under Spec).                            *)
(***************************************************************************)
\* The pc values of Transferring, Finalizing and Pruning.
Critical ==
    {"Transferring", "Rename", "RmLatest", "LnLatest", "Pruning", "Removing"}

\* The pc values of a run between its write of the lock file and its end.
Holding ==
    {"Validating", "TransferLog", "Cleanup", "CleanupRm", "Exit", "ExitRm"}
    \cup Critical

\* Run r takes a step of its own code (it is not killed).
Steps(r) == pc'[r] # pc[r] /\ pc'[r] # "Killed"

\* C1: at most one run at a time is in Transferring, Finalizing or Pruning.
C1_MutualExclusion == Cardinality({r \in Runs : pc[r] \in Critical}) <= 1

\* C2: a run whose check_lockfile read the PID of a running process aborts
\* with LockHeld at once, leaving the lock file and the destination as they
\* are.
C2_LockHeldAborts ==
    [][\A r \in Runs :
        (pc[r] = "PidRunning" /\ Running(lockpid[r][1]) /\ Steps(r)) =>
            /\ pc'[r] = "Aborted" /\ exc'[r] = "LockHeld"
            /\ lockfile' = lockfile /\ dest' = dest /\ latest' = latest]_vars

\* C3: a run that finds no lock file, or reads the PID of a process that is
\* not running, goes on to write the lock file without raising; the write
\* leaves the run's own PID in the lock file.
C3_AcquireSucceeds ==
    [][\A r \in Runs :
        /\ (pc[r] = "CheckLock" /\ lockfile = <<>> /\ Steps(r))
                => pc'[r] = "WriteLock" /\ exc'[r] = "none"
        /\ (pc[r] = "PidRunning" /\ ~Running(lockpid[r][1]) /\ Steps(r))
                => pc'[r] = "WriteLock" /\ exc'[r] = "none"
        /\ (pc[r] = "WriteLock" /\ Steps(r))
                => /\ pc'[r] = "Validating" /\ exc'[r] = "none"
                   /\ lockfile' = <<r>>]_vars

\* Run 1 (root, whose os.kill is never refused) read the PID of the killed
\* run 2 in the lock file and now holds the lock.
C3_Witness ==
    /\ pc[1] = "Validating" /\ lockpid[1] = <<2>> /\ lockfile = <<1>>
    /\ pc[2] = "Killed"

\* C4: whenever a run that wrote the lock file ends as Done or Aborted, no
\* lock file is left at that moment.
C4_LockReleasedOnExit ==
    [][\A r \in Runs :
        (pc[r] \in Holding /\ pc'[r] \in {"Done", "Aborted"})
            => lockfile' = <<>>]_vars

\* One run ended by a failed transfer, the other completed, and no lock file
\* is left.
C4_Witness ==
    /\ pc[1] = "Aborted" /\ exc[1] = "TransferError"
    /\ pc[2] = "Done" /\ exc[2] = "none"
    /\ lockfile = <<>>

\* A name is a label when it is the image of some time under the format.
IsLabel(n) == \E t \in 0..(LabelBase * LabelBase - 1) : n = strftime(t)

\* C10: a deletions list holds no entry that is not a label, and the removal
\* of a deletions list leaves every entry of the destination that is not a
\* label in place.
C10_UnparseableKept ==
    [][\A r \in Runs :
        /\ (pc[r] = "Pruning" /\ pc'[r] = "Removing")
                => \A d \in Range(deletions'[r]) : IsLabel(d)
        /\ (pc[r] = "Removing" /\ Steps(r))
                => \A n \in Listing : ~IsLabel(n) => n \in Listing']_vars

\* A run has removed an old snapshot while the staging directory of another
\* run, the foreign entry and the "latest" link were there, and they still
\* are.
C10_Witness ==
    /\ \E r \in Runs : pc[r] = "TransferLog"
    /\ {Junk, Incomplete} \subseteq dest /\ latest # <<>>
    /\ OldSnaps \ dest # {}

(***************************************************************************)
(* Properties of the retention engine (checked under SpecEngine).          *)
(***************************************************************************)
Parsed == get_backup_list(e_listing)
Age(l) == e_now - strptime(l)
TierIndexes == 1..Len(aging_params)
TierSet(i) == Range(e_sorted.backups[i])
Deleted == Range(e_deletions)
IsOldest(l, S) == \A m \in S : strptime(l) <= strptime(m)
IsNewest(l, S) == \A m \in S : strptime(l) >= strptime(m)

\* C5: in every tier that received a snapshot, neither the snapshot with the
\* earliest time nor the one with the latest time is in the deletions.
C5_OldestNewestKept ==
    e_pc = "pruned" =>
        \A i \in TierIndexes : \A l \in TierSet(i) :
            IsOldest(l, TierSet(i)) \/ IsNewest(l, TierSet(i))
                => l \notin Deleted

\* A tier of at least three snapshots from which one was thinned.
C5_Witness ==
    /\ e_pc = "pruned"
    /\ \E i \in TierIndexes :
        /\ Cardinality(TierSet(i)) >= 3
        /\ TierSet(i) \cap Deleted # {}

\* C6: when every tier received fewer than 3 snapshots, every deletion is a
\* label that no tier received (an out-of-range one).
C6_FewNoThinning ==
    (e_pc = "pruned" /\ \A i \in TierIndexes : Cardinality(TierSet(i)) < 3)
        => \A d \in Deleted : \A i \in TierIndexes : d \notin TierSet(i)

\* A tier of exactly two snapshots closer together than its spacing, beside
\* an out-of-range deletion.
C6_Witness ==
    /\ e_pc = "pruned"
    /\ \A i \in TierIndexes : Cardinality(TierSet(i)) < 3
    /\ \E i \in TierIndexes : \E a, b \in TierSet(i) :
        /\ strptime(a) < strptime(b)
        /\ strptime(b) - strptime(a) < aging_params[i].spacing
    /\ Deleted # {}

\* The kept reference a candidate c of tier S is measured against: the latest
\* earlier member of S that is the oldest of S or was not deleted.
KeptBefore(c, S) ==
    {x \in S : /\ strptime(x) < strptime(c)
               /\ IsOldest(x, S) \/ x \notin Deleted}
Reference(c, S) ==
    CHOOSE x \in KeptBefore(c, S) : IsNewest(x, KeptBefore(c, S))

\* The scenario of the specification: five snapshots a quarter of an hour
\* apart in one tier of spacing one hour (the unit is the quarter hour).
Scenario ==
    /\ Parsed = {strftime(t) : t \in 0..4}
    /\ aging_params = <<[spacing |-> 4, bound |-> Unbounded]>>

\* C7: in a tier of at least 3 snapshots a candidate (neither the oldest nor
\* the newest) is deleted if and only if its time since the kept reference is
\* strictly less than the spacing; in the scenario the deletions are the
\* three middle snapshots.
C7_ThinIffCloser ==
    e_pc = "pruned" =>
        /\ \A i \in TierIndexes :
            Cardinality(TierSet(i)) >= 3 =>
                \A c \in TierSet(i) :
                    ~IsOldest(c, TierSet(i)) /\ ~IsNewest(c, TierSet(i)) =>
                        (c \in Deleted <=>
                            strptime(c) - strptime(Reference(c, TierSet(i)))
                                < aging_params[i].spacing)
        /\ Scenario => Deleted = {strftime(t) : t \in 1..3}

\* The scenario, pruned: the three middle snapshots are the deletions.
C7_Witness ==
    /\ e_pc = "pruned"
    /\ Scenario
    /\ e_deletions = <<strftime(1), strftime(2), strftime(3)>>

\* C8: a parseable snapshot is in the lowest tier whose finite bound exceeds
\* its age and in no other; when no finite bound exceeds its age it is in the
\* unbounded tier, if there is one; a snapshot whose age equals a tier's bound
\* is not in that tier but in the next.
C8_FirstMatchingTier ==
    e_pc \in {"sorted", "pruned"} =>
        \A l \in Parsed :
            LET M == {i \in TierIndexes :
                        /\ aging_params[i].bound # Unbounded
                        /\ Age(l) < aging_params[i].bound}
                U == {i \in TierIndexes : aging_params[i].bound = Unbounded}
                In == {i \in TierIndexes : l \in TierSet(i)}
            IN  /\ M # {} => In = {CHOOSE i \in M : \A j \in M : i <= j}
                /\ M = {} => In = U
                /\ \A i \in TierIndexes :
                    (/\ aging_params[i].bound # Unbounded
                     /\ Age(l) = aging_params[i].bound) =>
                        /\ i \notin In
                        /\ i < Len(aging_params) => i + 1 \in In

\* A snapshot whose age is exactly the first tier's bound, placed in the
\* second tier.
C8_Witness ==
    /\ e_pc = "sorted"
    /\ Len(aging_params) = 2
    /\ \E l \in Parsed :
        /\ Age(l) = aging_params[1].bound
        /\ l \in TierSet(2)

\* C9: with no unbounded tier, every parseable snapshot whose age is not less
\* than any tier's bound is in the deletions.
C9_OutOfRangeDeleted ==
    (e_pc = "pruned" /\ \A i \in TierIndexes : aging_params[i].bound # Unbounded)
        => \A l \in Parsed :
            (\A i \in TierIndexes : Age(l) >= aging_params[i].bound)
                => l \in Deleted

\* Several out-of-range snapshots further apart than any spacing, all
\* deleted, with no unbounded tier.
C9_Witness ==
    /\ e_pc = "pruned"
    /\ \A i \in TierIndexes : aging_params[i].bound # Unbounded
    /\ \E a, b \in Parsed :
        /\ strptime(b) - strptime(a) >= MaxSpacing
        /\ \A i \in TierIndexes : Age(b) >= aging_params[i].bound
        /\ {a, b} \subseteq Deleted

(***************************************************************************)
(* Properties of the engine on ordered listings (checked under SpecOrder). *)
(***************************************************************************)
\* C11: two evaluations of the engine on the same entries, reference time
\* and tiers give the same set of deletions (and the same list), whatever
\* the order in which the entries were listed.
C11_OrderIndependent ==
    e_pc = "second" =>
        /\ Range(e_again) = Range(e_deletions)
        /\ e_again = e_deletions

\* The entries were listed newest first, a tier of at least three of them
\* was thinned, and both evaluations are done.
C11_Witness ==
    /\ e_pc = "second"
    /\ Len(e_listed) >= 3
    /\ \A i \in 1..(Len(e_listed) - 1) : StrLess(e_listed[i + 1], e_listed[i])
    /\ \E i \in TierIndexes : \E d \in Range(e_deletions) :
            age_index(d, e_now, aging_params) = i

(***************************************************************************)
(* Properties of the stages of a run (checked under Spec).                 *)
(***************************************************************************)
\* The pc values of the release of the lock.
Release == {"Cleanup", "CleanupRm", "Exit", "ExitRm"}

\* C12: a run enters each stage only from the step that ends the stage
\* before it, and only when that step raised nothing: the lock is written
\* before Validating, Validating passes before Transferring, the transfer
\* succeeds before the rename, each command of Finalizing succeeds before the
\* next, Finalizing succeeds before Pruning, and no stage follows the
\* release.  A run in Pruning has minted its label and raised nothing.
C12_StageOrder ==
    [][\A r \in Runs :
        pc'[r] # pc[r] =>
            /\ pc'[r] = "Validating" => pc[r] = "WriteLock"
            /\ pc'[r] = "Transferring" => pc[r] = "Validating"
            /\ pc'[r] = "Rename" => pc[r] = "Transferring"
            /\ pc'[r] = "RmLatest" => pc[r] = "Rename"
            /\ pc'[r] = "LnLatest" => pc[r] = "RmLatest"
            /\ pc'[r] = "Pruning" => pc[r] = "LnLatest"
            /\ pc'[r] = "Removing" => pc[r] = "Pruning"
            /\ pc'[r] \in Critical \cup {"Validating"} => exc'[r] = "none"
            /\ pc'[r] \in {"Pruning", "Removing"} => backup_time'[r] # <<>>
            /\ pc[r] \in Release => pc'[r] \in Release \cup Ended]_vars

\* One run is removing old snapshots after its stages succeeded in order,
\* while the other was stopped by a failed command of Finalizing.
C12_Witness ==
    \E r, q \in Runs :
        /\ pc[r] = "Removing" /\ exc[r] = "none" /\ backup_time[r] # <<>>
        /\ pc[q] = "Aborted" /\ exc[q] = "FinalizeError"

\* C13: a run whose merged options hold the dry-run flag of rsync goes from
\* a transfer that succeeded straight to the release, takes no step of
\* Finalizing or Pruning, changes neither the labels at the destination nor
\* the "latest" link, and leaves no lock file when it ends.
C13_DryRunSkips ==
    [][\A r \in Runs :
        (rsync_dry_run(rsync_opts[r]) /\ Steps(r)) =>
            /\ pc'[r] \notin
                    {"Rename", "RmLatest", "LnLatest", "Pruning", "Removing"}
            /\ (pc[r] = "Transferring" /\ exc'[r] = "none")
                    => pc'[r] = "Cleanup"
            /\ get_backup_list(Listing') = get_backup_list(Listing)
            /\ latest' = latest
            /\ (pc[r] \in Holding /\ pc'[r] \in {"Done", "Aborted"})
                    => lockfile' = <<>>]_vars

\* C14: when rsync fails, the step changes nothing at the destination but
\* the staging directory and the run goes to the release; from then on the
\* run changes neither the destination nor the "latest" link, and it ends
\* Aborted with no lock file left.
C14_TransferFailure ==
    [][\A r \in Runs :
        /\ (pc[r] = "Transferring" /\ exc'[r] = "TransferError") =>
                /\ pc'[r] = "Exit"
                /\ dest' \ {Incomplete} = dest \ {Incomplete}
                /\ latest' = latest
        /\ (exc[r] = "TransferError" /\ Steps(r)) =>
                /\ pc'[r] \in {"ExitRm", "Aborted"}
                /\ dest' = dest /\ latest' = latest
                /\ pc'[r] = "Aborted" => lockfile' = <<>>]_vars

\* A run ended by a failed rsync that had written part of the staging
\* directory: the earlier snapshots and the "latest" link are as they were
\* and no lock file is left.
C14_Witness ==
    /\ \E r \in Runs : pc[r] = "Aborted" /\ exc[r] = "TransferError"
    /\ \A r \in Runs : pc[r] \in {"Idle", "Aborted"}
    /\ dest = OldSnaps \cup {Junk, Incomplete}
    /\ latest = strftime(OldCount - 1)
    /\ lockfile = <<>>

\* C15: validate_host changes nothing at the destination; without a remote
\* it always passes; a failed check sends the run to the release with a
\* ValidationError, and the run then ends Aborted without a transfer and
\* without a change to the destination or the "latest" link.
C15_ValidationFailure ==
    [][\A r \in Runs :
        /\ (pc[r] = "Validating" /\ Steps(r)) =>
                /\ ~remote.present
                        => pc'[r] = "Transferring" /\ exc'[r] = "none"
                /\ exc'[r] # "none"
                        => pc'[r] = "Exit" /\ exc'[r] = "ValidationError"
                /\ dest' = dest /\ latest' = latest
        /\ (exc[r] = "ValidationError" /\ Steps(r)) =>
                /\ pc'[r] \in {"ExitRm", "Aborted"}
                /\ dest' = dest /\ latest' = latest]_vars

\* A run with a remote ended by a failed check: the destination is as the
\* earlier runs left it, without a staging directory.
C15_Witness ==
    /\ remote.present
    /\ \E r \in Runs : pc[r] = "Aborted" /\ exc[r] = "ValidationError"
    /\ \A r \in Runs : pc[r] \in {"Idle", "Aborted"}
    /\ dest = OldSnaps \cup {Junk}
    /\ latest = strftime(OldCount - 1)

\* C16: a run enters Pruning only from the last command of Finalizing, and
\* the listing its prune_backup reads holds the label the run minted.
C16_ListingHasNewLabel ==
    [][\A r \in Runs :
        /\ (pc'[r] = "Pruning" /\ pc[r] # "Pruning") => pc[r] = "LnLatest"
        /\ (pc[r] = "Pruning" /\ pc'[r] \in {"Removing", "TransferLog"})
                => backup_time[r] \in get_backup_list(Listing)]_vars

\* The time at which run r minted its label.
MintedTime(r) ==
    CHOOSE t \in 0..(LabelBase * LabelBase - 1) : strftime(t) = backup_time[r]

\* C17: the label a run mints is the image of the time of its rename, it
\* stays the run's backup_time up to Pruning, and the deletions list the
\* run's prune_backup builds is the engine's result for the one listing read
\* at that step with the minted time as reference time, under which the new
\* snapshot has age zero and falls in the first tier.
C17_NowIsMintedTime ==
    [][\A r \in Runs :
        /\ (pc[r] = "Rename" /\ Steps(r)) => backup_time'[r] = strftime(clock)
        /\ (pc[r] \in {"RmLatest", "LnLatest"} /\ Steps(r))
                => backup_time'[r] = backup_time[r]
        /\ (pc[r] = "Pruning" /\ pc'[r] = "Removing") =>
                /\ IsLabel(backup_time[r])
                /\ deletions'[r] =
                        prune_deletions(
                            sort_by_age(get_backup_list(Listing),
                                        MintedTime(r), aging_params),
                            aging_params)
                /\ age_index(backup_time[r], MintedTime(r), aging_params) = 1
           ]_vars

\* A run whose clock moved on between its rename and its prune_backup has
\* built a deletions list.
C17_Witness ==
    \E r \in Runs :
        /\ pc[r] = "Removing"
        /\ IsLabel(backup_time[r]) /\ MintedTime(r) < clock
        /\ deletions[r] # <<>>

\* C18: a failure of the listing or of a removal during Pruning raises
\* nothing that ends the run: no run ends Aborted for a failure of Pruning.
C18_PruneFailureNonFatal ==
    \A r \in Runs : pc[r] = "Aborted" => exc[r] # "PruneError"

\* The exit status of the process of run r, once it has ended: non-zero when
\* an exception left main.
exit_status(r) == IF pc[r] = "Aborted" THEN 1 ELSE 0

\* C19: the process of a run that ended for LockHeld, ConfigError,
\* ValidationError or TransferError exits non-zero; the process of a run that
\* raised nothing, or met nothing worse than a failure after Finalizing (in
\* Pruning or in the transfer of the log), exits zero.
C19_ExitStatus ==
    \A r \in Runs :
        pc[r] \in {"Done", "Aborted"} =>
            /\ exc[r] \in {"LockHeld", "ConfigError", "ValidationError",
                            "TransferError"} => exit_status(r) # 0
            /\ exc[r] \in {"none", "PruneError", "LogError"}
                    => exit_status(r) = 0

(***************************************************************************)
(* Properties of merge_opts (checked under SpecMerge).                     *)
(***************************************************************************)
\* A new option of the form no-<name>, and the name it carries.
IsNo(o) == match(<<"n", "o", "-">>, o)
NoName(o) == SubSeq(o, 4, Len(o))

\* An option that some new option no-<name> negates: it is <name> or begins
\* with <name>.
Negated(opt) ==
    \E i \in 1..Len(m_new_opts) :
        IsNo(m_new_opts[i]) /\ match(NoName(m_new_opts[i]), opt)

\* C20: the merged list is the options started from without those a new
\* option no-<name> negates, followed by the new options that are not of the
\* form no-<name>.
C20_FlagMerging ==
    m_pc = "merged" =>
        m_result =
            SelectSeq(m_opts, LAMBDA o : ~Negated(o))
            \o SelectSeq(m_new_opts, LAMBDA o : ~IsNo(o))

(***************************************************************************)
(* Properties of the configuration and of the lock (checked under Spec).   *)
(***************************************************************************)
\* The "remote" setting is there and lacks host or location, or its location
\* is neither src nor dest.
BadRemote ==
    /\ remote.present
    /\ ~remote.has_host \/ remote.location \notin {"src", "dest"}

C22_NotRunningOnlyOnEsrch ==
    [][\A r \in Runs :
        (pc[r] = "PidRunning" /\ Steps(r)) =>
            IF kill(r, lockpid[r][1]) = "ESRCH"
            THEN pc'[r] = "WriteLock"
            ELSE pc'[r] = "Aborted" /\ exc'[r] = "LockHeld"]_vars


(***************************************************************************)
(* The tiers of a resolved configuration.                                  *)
(***************************************************************************)
FracLess(a, b) == a.n * b.d < b.n * a.d

IsUnbounded(b) == b = [n |-> Unbounded, d |-> 1]

\* Finite bounds strictly increasing, the last tier (and only it) unbounded.
Partitioning(tiers) ==
    /\ tiers # <<>>
    /\ IsUnbounded(tiers[Len(tiers)].bound)
    /\ \A i \in 1..(Len(tiers) - 1) : ~IsUnbounded(tiers[i].bound)
    /\ \A i \in 1..(Len(tiers) - 2) :
        FracLess(tiers[i].bound, tiers[i + 1].bound)

\* C23: every configuration that resolves has tiers whose bounds strictly
\* increase with the final tier unbounded; tiers that violate this do not
\* resolve.
C23_ResolvedTiersPartition ==
    (c_pc = "resolved" /\ c_config.status = "ok") =>
        Partitioning(c_config.aging_params)

\* The left-to-right value of an expression.
RECURSIVE left_to_right(_, _)
left_to_right(val, toks) ==
    IF toks = <<>> THEN val
    ELSE left_to_right(IF Head(toks).op = "*"
                       THEN Frac(val.n * Head(toks).num, val.d)
                       ELSE Frac(val.n, val.d * Head(toks).num),
                       Tail(toks))

\* C24: a field given as a string of literals joined by * and / resolves
\* to the left-to-right value of the expression, wherever its * and / are.
C24_LeftToRightValue ==
    (c_pc = "resolved" /\ c_raw.tiers # <<>>
        /\ c_raw.tiers[1].spacing.is_str) =>
        LET expr == c_raw.tiers[1].spacing.expr
        IN  /\ c_config.status = "ok"
            /\ c_config.aging_params[1].spacing =
                   left_to_right(Frac(expr[1].num, 1), Tail(expr))

Tier(sn, sd, b) ==
    [spacing |-> [n |-> sn, d |-> sd], bound |-> [n |-> b, d |-> 1]]

NoTiersGiven == c_pc = "resolved" /\ (~c_raw.given \/ c_raw.tiers = <<>>)

\* C26 as stated: with no tiers given the resolved tiers are (in days)
\* 1/2 below 2, 1 below 14, 7 below 60, 30 below 730, 365 unbounded.
C26_DefaultTiersHalfDay ==
    NoTiersGiven =>
        /\ c_config.status = "ok"
        /\ c_config.aging_params =
               <<Tier(1, 2, 2), Tier(1, 1, 14), Tier(7, 1, 60),
                 Tier(30, 1, 730), Tier(365, 1, Unbounded)>>

\* C26, amended: with no tiers given the resolved tiers are (in days)
\* 1/48 (half an hour) below 2, 1 below 14, 7 below 60, 30 below 730,
\* 365 unbounded.
C26_DefaultTiersHalfHour ==
    NoTiersGiven =>
        /\ c_config.status = "ok"
        /\ c_config.aging_params =
               <<Tier(1, 48, 2), Tier(1, 1, 14), Tier(7, 1, 60),
                 Tier(30, 1, 730), Tier(365, 1, Unbounded)>>

C26_Witness ==
    /\ c_pc = "resolved" /\ ~c_raw.given
    /\ Len(c_config.aging_params) = 5


(***************************************************************************)
(* Labels and times.                                                       *)
(***************************************************************************)
\* C25: a time formatted as a label and parsed back is the same time; two
\* different times have different labels; the order of the labels is the
\* order of the times.
C25_LabelRoundTrip ==
    /\ l_pc = "parsed" => l_parsed = l_time
    /\ l_pc \in {"formatted", "parsed"} =>
        /\ l_time[1] # l_time[2] => l_label[1] # l_label[2]
        /\ StrLess(l_label[1], l_label[2]) <=> l_time[1] < l_time[2]

\* Two times either side of a carry, formatted and parsed back.
C25_Witness ==
    /\ l_pc = "parsed"
    /\ l_time = <<LabelBase - 1, LabelBase>>
    /\ l_parsed = l_time


(***************************************************************************)
(* Runs one after another.                                                 *)
(***************************************************************************)
Acquiring == {"CheckLock", "ReadLock", "PidRunning", "WriteLock"}

\* C27: when the runs execute strictly one after another, in one process
\* or in several, every step of a run's acquire goes on to the next step
\* of the acquire or to validation: no run fails with LockHeld (nor on
\* reading the lock file) because of what an earlier run left.
C27_SequentialAcquire ==
    [][\A r \in Runs :
        (pc[r] \in Acquiring /\ pc'[r] # pc[r]) =>
            /\ pc'[r] \in Acquiring \cup {"Validating"}
            /\ exc'[r] = "none"
            /\ pc'[r] = "Validating" => lockfile' = <<proc[r]>>]_vars

\* The second run of a process holds the lock after the first run of the
\* same process failed in its transfer.
C27_Witness ==
    /\ proc[1] = proc[2]
    /\ \E r \in Runs : pc[r] = "Aborted" /\ exc[r] = "TransferError"
    /\ \E r \in Runs : pc[r] = "Validating" /\ lockfile = <<proc[r]>>


(***************************************************************************)
(* Termination.                                                            *)
(***************************************************************************)
\* The steps of a run in the order process_backup takes them.
StageOrder ==
    <<"Idle", "CheckLock", "ReadLock", "PidRunning", "WriteLock",
      "Validating", "Transferring", "Rename", "RmLatest", "LnLatest",
      "Pruning", "Removing", "TransferLog", "Cleanup", "CleanupRm",
      "Exit", "ExitRm", "Done", "Aborted">>

Rank(p) == CHOOSE i \in 1..Len(StageOrder) : StageOrder[i] = p

\* C28: when every external call returns, every run that has started
\* reaches Done or Aborted, and every step of a run moves it to a later
\* stage, so that no stage is entered twice.
C28_Termination ==
    /\ \A r \in Runs : (pc[r] # "Idle") ~> (pc[r] \in {"Done", "Aborted"})
    /\ [][\A r \in Runs :
            pc'[r] # pc[r] => Rank(pc'[r]) > Rank(pc[r])]_vars

\* Both runs have terminated, one of them after going through every stage.
C28_Witness ==
    /\ \A r \in Runs : pc[r] \in {"Done", "Aborted"}
    /\ \E r \in Runs : pc[r] = "Done" /\ latest # <<>> /\ latest \in dest


(***************************************************************************)
(* The lock file of a run in progress.                                     *)
(***************************************************************************)
\* Does the lock file record the PID of a run other than r that is in
\* progress?
LockOfAnother(r) ==
    \E q \in Runs \ {r} :
        /\ lockfile = <<proc[q]>>
        /\ pc[q] \notin {"Idle", "Done", "Aborted", "Killed"}

\* C29: a release step of a run (the cleanup at the end of process_backup
\* or the one of __exit__) never removes a lock file that records the PID
\* of another run in progress.
C29_ReleaseOwnLockOnly ==
    [][\A r \in Runs :
        (pc[r] \in {"CleanupRm", "ExitRm"} /\ pc'[r] # pc[r]
            /\ lockfile # <<>> /\ lockfile' = <<>>) =>
            ~LockOfAnother(r)]_vars

\* C30: while a run is validating, transferring, finalizing or pruning,
\* the lock file exists and records the PID of that run.
C30_LockRecordsRunInProgress ==
    \A r \in Runs :
        pc[r] \in {"Validating", "Transferring", "Rename", "RmLatest",
                   "LnLatest", "Pruning", "Removing"} =>
            lockfile = <<proc[r]>>


(***************************************************************************)
(* One pass of pruning is enough.                                          *)
(***************************************************************************)
\* C31: the engine applied again, with the same reference time and tiers,
\* to the snapshots the first pass keeps deletes nothing.
C31_OnePassFixpoint == e_pc = "rerun" => e_again = <<>>

\* The first pass thinned a tier and put a snapshot out of range, and the
\* second pass was made on more than two survivors.
C31_Witness ==
    /\ e_pc = "rerun"
    /\ e_sorted.deletions # <<>>
    /\ Len(e_deletions) > Len(e_sorted.deletions)
    /\ Cardinality(get_backup_list(e_listing) \ Range(e_deletions)) >= 3


(***************************************************************************)
(* What pruning spares in the runs.                                        *)
(***************************************************************************)
FinalTierUnbounded == aging_params[Len(aging_params)].bound = Unbounded

\* No label of the listing is later than the label of run r.
NoLaterLabel(r) ==
    \A d \in get_backup_list(Listing) :
        strptime(d) <= strptime(backup_time[r])

\* C32: when the final tier is unbounded and no label in the destination
\* is later than the one a run minted, the deletions of that run's
\* pruning do not hold the label it minted.
C32_MintedNotPruned ==
    [][\A r \in Runs :
        (/\ pc[r] = "Pruning" /\ pc'[r] \in {"Removing", "TransferLog"}
         /\ FinalTierUnbounded /\ NoLaterLabel(r)) =>
            backup_time[r] \notin Range(deletions'[r])]_vars

\* A run is about to remove older snapshots while the one it minted, the
\* latest of all, is in the destination.
C32_Witness ==
    \E r \in Runs :
        /\ pc[r] = "Removing" /\ deletions[r] # <<>>
        /\ backup_time[r] \in dest /\ backup_time[r] \notin Range(deletions[r])
        /\ FinalTierUnbounded /\ NoLaterLabel(r)


Earliest(entries) ==
    CHOOSE d \in get_backup_list(entries) :
        \A e \in get_backup_list(entries) : strptime(d) <= strptime(e)

\* C34: in runs made one after another with a tier list whose final tier
\* is unbounded, no deletion of pruning takes the snapshot of the earliest
\* time, whatever tier its age puts it in.
C34_EarliestKept ==
    [][\A r \in Runs :
        (/\ pc[r] = "Removing" /\ pc'[r] # pc[r]
         /\ FinalTierUnbounded /\ get_backup_list(dest) # {}) =>
            Earliest(dest) \in dest']_vars

\* After the pruning of an earlier run, a second run has pruned at a time
\* when the earliest snapshot is too old for the first of two tiers, and
\* the snapshot is still there.
C34_Witness ==
    \E r \in Runs :
        /\ pc[r] = "TransferLog"
        /\ \E q \in Runs \ {r} : pc[q] = "Done"
        /\ Len(aging_params) = 2 /\ FinalTierUnbounded
        /\ strftime(0) \in dest
        /\ strptime(backup_time[r]) - 0 >= aging_params[1].bound

=============================================================================
